---- MODULE Spec2Model ----
(***************************************************************************)
(* Model of the KdTree Python binding of small_gicp                        *)
(* (src/src/python/kdtree.cpp) together with the KdTree library it calls   *)
(* (small_gicp/ann/kdtree_omp.hpp, not part of src/: modelled from         *)
(* spec.md sections 3 and 4).                                              *)
(*                                                                         *)
(* Numbers.  Coordinates and squared distances are integers.  The double   *)
(* std::numeric_limits<double>::max() is the integer DBL_MAX, larger than  *)
(* every squared distance of the model, and IEEE +infinity is Infinity,    *)
(* a different and larger value.  size_t is narrowed from 64 to 16 bits    *)
(* (TLC's integers have 32), so that size_t(-1) is SIZE_MAX.               *)
(***************************************************************************)
EXTENDS Integers, Sequences, FiniteSets, TLC

VARIABLES
  points,       \* the Point Store: sequence of 3D points, index i is points[i+1]
  tree,         \* the KdTree: [indices: permutation array, nodes: set of KdNode]
  build_threads,\* thread count given to the builder
  tasks,        \* build: set of dispatched branches, each a stack of sub-ranges
  phase,        \* "build" | "ready" | "batch" (a batch call is in its parallel loop)
  call,         \* the arguments of the batch call in progress / last call
  k_indices,    \* output buffer of the call: one row of slots per query
  k_sq_dists,   \* output buffer of the call
  wpc,          \* per worker thread: "search" | "fixup" | "done"
  wi,           \* per worker thread: loop variable i
  wfound,       \* per worker thread: the local `found` of its current iteration
  processed,    \* per query row: number of loop iterations completed for it
  searches,     \* number of library searches executed by the current call
  result        \* what the last call returned (or the error it raised)

vars == <<points, tree, build_threads, tasks, phase, call, k_indices, k_sq_dists,
          wpc, wi, wfound, processed, searches, result>>

----------------------------------------------------------------------------
(* Bounds of the model *)

MaxN == 3          \* points in the Point Store of a queried tree
MaxBuildN == 4     \* points in the Point Store of a build
MaxBatchN == 2     \* points in the Point Store of a tree given to a batch call
MaxK == 2          \* k of a knn query
MaxM == 2          \* rows of a batch query
MaxThreads == 2    \* num_threads of a build or a batch call

Coords == 0 .. 1                 \* coordinates of stored points
QCoords == 0 .. 2                \* coordinates of single queries
Points == Coords \X Coords \X Coords
QPoints == QCoords \X QCoords \X QCoords
\* stored points of a build: ties and spread along every axis
\* stored points and query rows of a batch call
BatchPoints == {<<0, 0, 0>>, <<1, 1, 0>>}
BatchQPoints == {<<0, 0, 0>>, <<2, 1, 0>>}   \* columns 0..2 of a query row
WVals == {1, 3}                              \* column 3 of a query row
BuildPoints == {<<0, 0, 0>>, <<1, 0, 0>>, <<0, 1, 0>>, <<0, 0, 1>>, <<1, 1, 1>>}

Min2(a, b) == IF a < b THEN a ELSE b

RECURSIVE SeqsUpTo(_, _)
SeqsUpTo(S, n) ==
  IF n = 0 THEN {<<>>}
  ELSE LET shorter == SeqsUpTo(S, n - 1)
       IN shorter \cup {Append(s, e) : s \in {t \in shorter : Len(t) = n - 1}, e \in S}

----------------------------------------------------------------------------
(* Numeric constants of the binding *)

DBL_MAX == 1000000
Infinity == DBL_MAX + 1
SIZE_MAX == 65535
ToSizeT(n) == n % (SIZE_MAX + 1)

----------------------------------------------------------------------------
(* The KdTree library: construction (spec.md 4.1) *)

Coord(pts, i, axis) == pts[i + 1][axis + 1]

SeqMax(pts, s, axis) ==
  CHOOSE m \in {Coord(pts, s[j], axis) : j \in 1 .. Len(s)} :
    \A j \in 1 .. Len(s) : Coord(pts, s[j], axis) <= m
SeqMin(pts, s, axis) ==
  CHOOSE m \in {Coord(pts, s[j], axis) : j \in 1 .. Len(s)} :
    \A j \in 1 .. Len(s) : Coord(pts, s[j], axis) >= m
Spread(pts, s, axis) == SeqMax(pts, s, axis) - SeqMin(pts, s, axis)

\* the dimension with the largest spread; the lowest such dimension on a tie
SplitAxis(pts, s) ==
  CHOOSE a \in 0 .. 2 :
    /\ \A b \in 0 .. 2 : Spread(pts, s, b) <= Spread(pts, s, a)
    /\ \A b \in 0 .. (a - 1) : Spread(pts, s, b) < Spread(pts, s, a)

RECURSIVE InsertByAxis(_, _, _, _)
InsertByAxis(pts, s, e, axis) ==
  IF s = <<>> THEN <<e>>
  ELSE IF Coord(pts, e, axis) < Coord(pts, Head(s), axis) THEN <<e>> \o s
  ELSE <<Head(s)>> \o InsertByAxis(pts, Tail(s), e, axis)

RECURSIVE SortByAxis(_, _, _)
SortByAxis(pts, s, axis) ==
  IF s = <<>> THEN <<>>
  ELSE InsertByAxis(pts, SortByAxis(pts, SubSeq(s, 1, Len(s) - 1), axis), s[Len(s)], axis)

Median(lo, hi) == lo + ((hi - lo) \div 2)

\* the positions of the shared index array a branch working on [lo, hi) rewrites
SubRangeOverlapping(n, lo, hi) == (lo + 1) .. (IF hi < n THEN hi + 1 ELSE hi)
SubRange(n, lo, hi) == (lo + 1) .. hi

\* in-place partition of the sub-range [lo, hi) around its median along axis
PartitionRange(pts, idx, lo, hi, axis) ==
  LET r == SubRange(Len(idx), lo, hi)
      first == lo + 1
      last == first + Cardinality(r) - 1
      sorted == SortByAxis(pts, SubSeq(idx, first, last), axis)
  IN [p \in 1 .. Len(idx) |-> IF p \in r THEN sorted[p - lo] ELSE idx[p]]

LeafNode(lo, hi, i) ==
  [lo |-> lo, hi |-> hi, leaf |-> TRUE, axis |-> 0, split_value |-> 0, point_index |-> i]
InnerNode(lo, hi, axis, split) ==
  [lo |-> lo, hi |-> hi, leaf |-> FALSE, axis |-> axis, split_value |-> split,
   point_index |-> 0]

\* one recursion step over the sub-range [lo, hi): the node it creates and the
\* index array it leaves
BuildStep(pts, idx, lo, hi) ==
  IF hi - lo <= 1
  THEN [indices |-> idx, node |-> LeafNode(lo, hi, idx[lo + 1])]
  ELSE LET axis == SplitAxis(pts, SubSeq(idx, lo + 1, hi))
           idx2 == PartitionRange(pts, idx, lo, hi, axis)
       IN [indices |-> idx2,
           node |-> InnerNode(lo, hi, axis, Coord(pts, idx2[Median(lo, hi) + 1], axis))]

EmptyTree(n) == [indices |-> [p \in 1 .. n |-> p - 1], nodes |-> {}]

\* the build with one thread: node, then left branch, then right branch
RECURSIVE BuildRange(_, _, _, _)
BuildRange(pts, t, lo, hi) ==
  LET s == BuildStep(pts, t.indices, lo, hi)
      t1 == [indices |-> s.indices, nodes |-> t.nodes \cup {s.node}]
  IN IF s.node.leaf THEN t1
     ELSE BuildRange(pts, BuildRange(pts, t1, lo, Median(lo, hi)), Median(lo, hi), hi)

BuildTree(pts) ==
  IF Len(pts) = 0 THEN EmptyTree(0) ELSE BuildRange(pts, EmptyTree(Len(pts)), 0, Len(pts))

----------------------------------------------------------------------------
(* The KdTree library: search (spec.md 4.2, 4.3) *)

\* squared Euclidean distance over the first 3 coordinates
SqDist(p, q) ==
  (p[1] - q[1]) * (p[1] - q[1]) + (p[2] - q[2]) * (p[2] - q[2])
    + (p[3] - q[3]) * (p[3] - q[3])

NodeAt(t, lo, hi) == CHOOSE nd \in t.nodes : nd.lo = lo /\ nd.hi = hi

\* candidate list of a search: <<index, squared distance>> pairs, nearest first,
\* at most k of them
Bound(cand, k) == IF Len(cand) < k THEN Infinity ELSE cand[Len(cand)][2]

RECURSIVE InsertCand(_, _)
InsertCand(cand, e) ==
  IF cand = <<>> THEN <<e>>
  ELSE IF e[2] < Head(cand)[2] THEN <<e>> \o cand
  ELSE <<Head(cand)>> \o InsertCand(Tail(cand), e)

Offer(cand, k, e) ==
  IF e[2] < Bound(cand, k)
  THEN LET c == InsertCand(cand, e) IN SubSeq(c, 1, IF Len(c) < k THEN Len(c) ELSE k)
  ELSE cand

\* branch-and-bound traversal; st = [cand, visited]: the candidates so far and
\* the number of leaves visited
RECURSIVE Traverse(_, _, _, _, _, _, _)
Traverse(t, pts, q, k, lo, hi, st) ==
  LET nd == NodeAt(t, lo, hi)
  IN IF nd.leaf
     THEN [cand |-> Offer(st.cand, k, <<nd.point_index, SqDist(pts[nd.point_index + 1], q)>>),
           visited |-> st.visited + 1]
     ELSE LET mid == Median(lo, hi)
              diff == q[nd.axis + 1] - nd.split_value
              nearLeft == diff < 0
              s1 == IF nearLeft THEN Traverse(t, pts, q, k, lo, mid, st)
                    ELSE Traverse(t, pts, q, k, mid, hi, st)
          IN IF diff * diff < Bound(s1.cand, k)
             THEN IF nearLeft THEN Traverse(t, pts, q, k, mid, hi, s1)
                  ELSE Traverse(t, pts, q, k, lo, mid, s1)
             ELSE s1

Search(t, pts, q, k) ==
  IF Len(pts) = 0 THEN [cand |-> <<>>, visited |-> 0]
  ELSE Traverse(t, pts, q, k, 0, Len(pts), [cand |-> <<>>, visited |-> 0])

\* traits::knn_search(kdtree, pt, k, k_indices, k_sq_dists): fills the first
\* `found` slots of the caller's buffers and returns found
LibKnnSearch(t, pts, q, k, ind, dist) ==
  LET s == Search(t, pts, q, k)
      found == Len(s.cand)
  IN [found |-> found,
      k_indices |-> [j \in 1 .. Len(ind) |-> IF j <= found THEN s.cand[j][1] ELSE ind[j]],
      k_sq_dists |-> [j \in 1 .. Len(dist) |-> IF j <= found THEN s.cand[j][2] ELSE dist[j]],
      visited |-> s.visited]

\* traits::nearest_neighbor_search(kdtree, pt, &k_index, &k_sq_dist)
LibNearestNeighborSearch(t, pts, q, ind, dist) ==
  LET r == LibKnnSearch(t, pts, q, 1, <<ind>>, <<dist>>)
  IN [found |-> r.found, k_index |-> r.k_indices[1], k_sq_dist |-> r.k_sq_dists[1],
      visited |-> r.visited]

----------------------------------------------------------------------------
(* The binding: nearest_neighbor_search and knn_search (kdtree.cpp 35-69) *)

\* Eigen::Vector4d(pt.x(), pt.y(), pt.z(), 1.0)
NearestQueryRepeatsX(pt) == <<pt[1], pt[1], pt[3], 1>>
NearestQuery(pt) == <<pt[1], pt[2], pt[3], 1>>

KnnQueryRepeatsX(pt) == <<pt[1], pt[1], pt[3], 1>>
KnnQuery(pt) == <<pt[1], pt[2], pt[3], 1>>

\* size_t k_index = -1
NearestInitIndexZero == ToSizeT(0)
NearestInitIndex == ToSizeT(-1)
\* double k_sq_dist = std::numeric_limits<double>::max()
NearestInitSqDist == DBL_MAX

\* std::vector<size_t> k_indices(k, -1)
KnnInitIndicesZero(k) == [j \in 1 .. k |-> 0]
KnnInitIndices(k) == [j \in 1 .. k |-> ToSizeT(-1)]
\* std::vector<double> k_sq_dists(k, std::numeric_limits<double>::max())
KnnInitSqDists(k) == [j \in 1 .. k |-> DBL_MAX]

NoCall == [op |-> "none"]

Idle ==
  /\ tasks = {}
  /\ call = NoCall
  /\ k_indices = <<>>
  /\ k_sq_dists = <<>>
  /\ wpc = <<>>
  /\ wi = <<>>
  /\ wfound = <<>>
  /\ processed = <<>>
  /\ searches = 0

\* nearest_neighbor_search(kdtree, pt) -> (found, k_index, k_sq_dist)
NearestReturn(pt) ==
  LET r == LibNearestNeighborSearch(tree, points, NearestQuery(pt),
                                    NearestInitIndex, NearestInitSqDist)
  IN [op |-> "nearest", pt |-> pt, found |-> r.found, k_index |-> r.k_index,
      k_sq_dist |-> r.k_sq_dist, visited |-> r.visited]

nearest_neighbor_search(pt) ==
  /\ phase = "ready"
  /\ result = NoCall
  /\ result' = NearestReturn(pt)
  /\ UNCHANGED <<points, tree, build_threads, tasks, phase, call, k_indices, k_sq_dists,
                 wpc, wi, wfound, processed, searches>>

\* knn_search(kdtree, pt, k) -> (k_indices, k_sq_dists)
KnnReturn(pt, k) ==
  LET r == LibKnnSearch(tree, points, KnnQuery(pt), k, KnnInitIndices(k),
                        KnnInitSqDists(k))
  IN [op |-> "knn", pt |-> pt, k |-> k, k_indices |-> r.k_indices,
      k_sq_dists |-> r.k_sq_dists, visited |-> r.visited]

knn_search(pt, k) ==
  /\ phase = "ready"
  /\ result = NoCall
  /\ result' = KnnReturn(pt, k)
  /\ UNCHANGED <<points, tree, build_threads, tasks, phase, call, k_indices, k_sq_dists,
                 wpc, wi, wfound, processed, searches>>

----------------------------------------------------------------------------
(* Single queries against every tree over the bounded point sets.  A query  *)
(* reads the immutable tree and nothing an earlier call left behind, so a  *)
(* behaviour follows one call from the built tree to its return value.     *)

InitQuery ==
  /\ points \in SeqsUpTo(Points, MaxN)
  /\ tree = BuildTree(points)
  /\ build_threads = 0
  /\ phase = "ready"
  /\ Idle
  /\ result = NoCall

NextQuery ==
  \/ \E pt \in QPoints : nearest_neighbor_search(pt)
  \/ \E pt \in QPoints, k \in 1 .. MaxK : knn_search(pt, k)

SpecQuery == InitQuery /\ [][NextQuery]_vars

----------------------------------------------------------------------------
(* Brute force reference *)

N == Len(points)

MinSqDist(q) ==
  CHOOSE m \in {SqDist(points[j], q) : j \in 1 .. N} :
    \A j \in 1 .. N : m <= SqDist(points[j], q)

\* C1: on a tree of at least one point, nearest reports found and returns an
\* index whose squared distance to the query is the minimum over all stored
\* points, and the returned squared distance is that minimum.
C1_NearestIsBruteForceMin ==
  (result.op = "nearest" /\ N > 0) =>
    /\ result.found = 1
    /\ result.k_index \in 0 .. (N - 1)
    /\ SqDist(points[result.k_index + 1], result.pt) = MinSqDist(result.pt)
    /\ result.k_sq_dist = MinSqDist(result.pt)

\* the search pruned a far child (fewer leaves visited than points stored) on a
\* point set with a duplicate, and found the minimum
C1_Witness ==
  /\ result.op = "nearest"
  /\ N = MaxN
  /\ result.visited < N
  /\ \E i, j \in 1 .. N : i < j /\ points[i] = points[j]
  /\ result.found = 1
  /\ result.k_sq_dist = MinSqDist(result.pt)
  /\ result.k_sq_dist > 0

\* C6 as stated: on an empty tree nearest returns found = 0, the out-of-range
\* sentinel index and squared distance +infinity.
C6_EmptyNearestInfinity ==
  (result.op = "nearest" /\ N = 0) =>
    /\ result.found = 0
    /\ result.k_index = ToSizeT(-1)
    /\ result.k_sq_dist = Infinity

\* C6 amended: on an empty tree nearest returns found = 0, the index size_t(-1)
\* (out of range for every tree) and squared distance
\* std::numeric_limits<double>::max(), the largest finite double.
C6_EmptyNearestDblMax ==
  (result.op = "nearest" /\ N = 0) =>
    /\ result.found = 0
    /\ result.k_index = ToSizeT(-1)
    /\ result.k_index >= MaxN
    /\ result.k_sq_dist = DBL_MAX

C6_Witness ==
  /\ result.op = "nearest"
  /\ N = 0
  /\ result.found = 0
  /\ result.pt # <<0, 0, 0>>

----------------------------------------------------------------------------
(* knn_search against the brute force *)

RECURSIVE InsertNum(_, _)
InsertNum(s, d) ==
  IF s = <<>> THEN <<d>>
  ELSE IF d <= Head(s) THEN <<d>> \o s
  ELSE <<Head(s)>> \o InsertNum(Tail(s), d)

RECURSIVE SortedSqDists(_, _)
SortedSqDists(q, n) ==
  IF n = 0 THEN <<>> ELSE InsertNum(SortedSqDists(q, n - 1), SqDist(points[n], q))

\* C4: the first min(k, N) squared distances of knn are non-decreasing and are,
\* slot by slot, the min(k, N) smallest brute-force squared distances sorted
\* ascending; the indices in these slots are distinct indices of stored points,
\* and each one's true squared distance is the distance in its slot.
C4_KnnIsBruteForce ==
  result.op = "knn" =>
    LET m == Min2(result.k, N)
        ref == SortedSqDists(result.pt, N)
    IN /\ \A j \in 1 .. m : result.k_sq_dists[j] = ref[j]
       /\ \A j \in 1 .. (m - 1) : result.k_sq_dists[j] <= result.k_sq_dists[j + 1]
       /\ \A j \in 1 .. m :
            /\ result.k_indices[j] \in 0 .. (N - 1)
            /\ SqDist(points[result.k_indices[j] + 1], result.pt) = result.k_sq_dists[j]
       /\ \A i, j \in 1 .. m : i # j => result.k_indices[i] # result.k_indices[j]

\* a k = MaxK query on a full point set with two points at the same distance,
\* answered without visiting every leaf
C4_Witness ==
  /\ result.op = "knn"
  /\ result.k = MaxK
  /\ N = MaxN
  /\ result.visited < N
  /\ result.k_sq_dists[1] = result.k_sq_dists[2]
  /\ result.k_sq_dists[1] > 0
  /\ result.k_indices[1] # result.k_indices[2]

----------------------------------------------------------------------------
(* The constructor (kdtree.cpp 19-23) and the parallel build (spec.md 4.1, 5) *)

RECURSIVE Pow2(_)
Pow2(d) == IF d = 0 THEN 1 ELSE 2 * Pow2(d - 1)

\* branches are dispatched to other workers up to depth log2(T) from the root
Dispatched(depth, T) == Pow2(depth) < T

\* py::init(points, num_threads): KdTree(points, KdTreeBuilderOMP(num_threads))
\* starts the recursion on the whole index array
InitBuild ==
  /\ points \in SeqsUpTo(BuildPoints, MaxBuildN)
  /\ build_threads \in 1 .. MaxThreads
  /\ tree = EmptyTree(Len(points))
  /\ tasks = IF Len(points) = 0 THEN {} ELSE {<< <<0, Len(points), 0>> >>}
  /\ phase = "build"
  /\ call = NoCall
  /\ k_indices = <<>>
  /\ k_sq_dists = <<>>
  /\ wpc = <<>>
  /\ wi = <<>>
  /\ wfound = <<>>
  /\ processed = <<>>
  /\ searches = 0
  /\ result = NoCall

\* a worker runs the next recursion step of its branch: a leaf
BuildLeaf(task) ==
  /\ phase = "build"
  /\ task \in tasks
  /\ LET lo == Head(task)[1]
         hi == Head(task)[2]
         s == BuildStep(points, tree.indices, lo, hi)
     IN /\ s.node.leaf
        /\ tree' = [indices |-> s.indices, nodes |-> tree.nodes \cup {s.node}]
        /\ tasks' = (tasks \ {task}) \cup (IF Tail(task) = <<>> THEN {} ELSE {Tail(task)})
  /\ UNCHANGED <<points, build_threads, phase, call, k_indices, k_sq_dists, wpc, wi,
                 wfound, processed, searches, result>>

\* a worker runs the next recursion step of its branch: a split; the left half
\* goes to another worker when the depth allows, and is done first otherwise
BuildSplit(task) ==
  /\ phase = "build"
  /\ task \in tasks
  /\ LET lo == Head(task)[1]
         hi == Head(task)[2]
         depth == Head(task)[3]
         s == BuildStep(points, tree.indices, lo, hi)
         left == <<lo, Median(lo, hi), depth + 1>>
         right == <<Median(lo, hi), hi, depth + 1>>
     IN /\ ~s.node.leaf
        /\ tree' = [indices |-> s.indices, nodes |-> tree.nodes \cup {s.node}]
        /\ tasks' = IF Dispatched(depth, build_threads)
                    THEN (tasks \ {task}) \cup {<<left>>, <<right>> \o Tail(task)}
                    ELSE (tasks \ {task}) \cup {<<left, right>> \o Tail(task)}
  /\ UNCHANGED <<points, build_threads, phase, call, k_indices, k_sq_dists, wpc, wi,
                 wfound, processed, searches, result>>

\* every branch has been joined: the constructor returns the tree
BuildJoin ==
  /\ phase = "build"
  /\ tasks = {}
  /\ phase' = "ready"
  /\ UNCHANGED <<points, tree, build_threads, tasks, call, k_indices, k_sq_dists, wpc,
                 wi, wfound, processed, searches, result>>

NextBuild ==
  \/ \E task \in tasks : BuildLeaf(task)
  \/ \E task \in tasks : BuildSplit(task)
  \/ BuildJoin

SpecBuild == InitBuild /\ [][NextBuild]_vars

\* C7: whatever the thread count and the interleaving of the workers, the
\* constructor returns the tree a build with one thread makes: the same nodes
\* (range, axis, split value, leaf index) over the same permutation array.
C7_BuildThreadInvariant ==
  phase = "ready" => tree = BuildTree(points)

\* a build with the most threads whose two dispatched halves both partitioned
\* their part of the index array, and changed it
C7_Witness ==
  /\ phase = "ready"
  /\ build_threads = MaxThreads
  /\ N = MaxBuildN
  /\ \E a, b \in tree.nodes : /\ ~a.leaf /\ ~b.leaf
                              /\ a.hi <= b.lo
  /\ \E p \in 2 .. N : tree.indices[p - 1] > tree.indices[p]

----------------------------------------------------------------------------
(* The binding: batch_nearest_neighbor_search and batch_knn_search           *)
(* (kdtree.cpp 90-153).  A query array is [rows: its rows, cols: its column  *)
(* count]; row i of the code is rows[i + 1].                                  *)

Row(p, w, c) == SubSeq(<<p[1], p[2], p[3], w, 0>>, 1, c)
Rows(c) == {Row(p, w, c) : p \in BatchQPoints, w \in WVals}
Arrays == UNION {{[rows |-> r, cols |-> c] : r \in SeqsUpTo(Rows(c), MaxM)} : c \in 2 .. 5}

\* if (pts.cols() != 3 && pts.cols() != 4) throw std::invalid_argument(...)
ValidShapeAtLeast3(pts) == pts.cols >= 3
ValidShape(pts) == ~(pts.cols # 3 /\ pts.cols # 4)

\* #pragma omp parallel for num_threads(num_threads), for (i = 0; i < pts.rows(); ++i):
\* the static schedule gives thread t (0-based) the iterations [ChunkLo, ChunkHi)
ChunkLoFromPrevious(t, M, T) ==
  IF t = 0 THEN 0 ELSE (t * (M \div T) + Min2(t, M % T)) - 1
ChunkLo(t, M, T) == t * (M \div T) + Min2(t, M % T)
ChunkHi(t, M, T) == (t + 1) * (M \div T) + Min2(t + 1, M % T)

\* Eigen::Vector4d(pts(i, 0), pts(i, 1), pts(i, 2), 1.0)
BatchQueryLastColumn(pts, i) ==
  <<pts.rows[i + 1][1], pts.rows[i + 1][2], pts.rows[i + 1][pts.cols], 1>>
BatchQuery(pts, i) == <<pts.rows[i + 1][1], pts.rows[i + 1][2], pts.rows[i + 1][3], 1>>

\* if (!found) { k_indices[i] = -1; k_sq_dists[i] = max(); }
NearestNeedsFixupInverted(found) == found # 0
NearestNeedsFixup(found) == found = 0
NearestFixupIndexZero == ToSizeT(0)
NearestFixupIndex == ToSizeT(-1)
NearestFixupSqDist == DBL_MAX

NearestFixup(found, ind, dist) ==
  IF NearestNeedsFixup(found)
  THEN [k_index |-> NearestFixupIndex, k_sq_dist |-> NearestFixupSqDist]
  ELSE [k_index |-> ind, k_sq_dist |-> dist]

\* if (found < k) for (j = found; j < k; ++j) { k_indices[i][j] = -1; ... = max(); }
KnnFixup(found, k, ind, dist) ==
  [k_indices |-> [j \in 1 .. Len(ind) |->
                    IF found < k /\ j - 1 >= found /\ j - 1 < k THEN ToSizeT(-1) ELSE ind[j]],
   k_sq_dists |-> [j \in 1 .. Len(dist) |->
                    IF found < k /\ j - 1 >= found /\ j - 1 < k THEN DBL_MAX ELSE dist[j]]]

StartWorkers(M, T) ==
  /\ wpc' = [t \in 1 .. T |-> IF ChunkLo(t - 1, M, T) < ChunkHi(t - 1, M, T)
                              THEN "search" ELSE "done"]
  /\ wi' = [t \in 1 .. T |-> ChunkLo(t - 1, M, T)]
  /\ wfound' = [t \in 1 .. T |-> 0]
  /\ processed' = [i \in 1 .. M |-> <<>>]
  /\ searches' = 0
  /\ phase' = "batch"

Threw(op, pts) == [op |-> op, status |-> "invalid_argument", pts |-> pts]

\* batch_nearest_neighbor_search(kdtree, pts, num_threads): validation, output
\* buffers, start of the parallel loop
batch_nearest_neighbor_search(pts, T) ==
  /\ phase = "ready"
  /\ result = NoCall
  /\ IF ~ValidShape(pts)
     THEN /\ result' = Threw("batch_nearest", pts)
          /\ UNCHANGED <<call, k_indices, k_sq_dists, wpc, wi, wfound, processed,
                         searches, phase>>
     ELSE /\ call' = [op |-> "batch_nearest", pts |-> pts, k |-> 1, num_threads |-> T]
          /\ k_indices' = [i \in 1 .. Len(pts.rows) |-> ToSizeT(-1)]
          /\ k_sq_dists' = [i \in 1 .. Len(pts.rows) |-> DBL_MAX]
          /\ StartWorkers(Len(pts.rows), T)
          /\ UNCHANGED result
  /\ UNCHANGED <<points, tree, build_threads, tasks>>

\* batch_knn_search(kdtree, pts, k, num_threads)
batch_knn_search(pts, k, T) ==
  /\ phase = "ready"
  /\ result = NoCall
  /\ IF ~ValidShape(pts)
     THEN /\ result' = Threw("batch_knn", pts)
          /\ UNCHANGED <<call, k_indices, k_sq_dists, wpc, wi, wfound, processed,
                         searches, phase>>
     ELSE /\ call' = [op |-> "batch_knn", pts |-> pts, k |-> k, num_threads |-> T]
          /\ k_indices' = [i \in 1 .. Len(pts.rows) |-> [j \in 1 .. k |-> ToSizeT(-1)]]
          /\ k_sq_dists' = [i \in 1 .. Len(pts.rows) |-> [j \in 1 .. k |-> DBL_MAX]]
          /\ StartWorkers(Len(pts.rows), T)
          /\ UNCHANGED result
  /\ UNCHANGED <<points, tree, build_threads, tasks>>

\* thread t, iteration i: the search of the loop body writes slot i
BatchNearestSearch(t) ==
  /\ phase = "batch"
  /\ call.op = "batch_nearest"
  /\ wpc[t] = "search"
  /\ LET i == wi[t]
         r == LibNearestNeighborSearch(tree, points, BatchQuery(call.pts, i),
                                       k_indices[i + 1], k_sq_dists[i + 1])
     IN /\ k_indices' = [k_indices EXCEPT ![i + 1] = r.k_index]
        /\ k_sq_dists' = [k_sq_dists EXCEPT ![i + 1] = r.k_sq_dist]
        /\ wfound' = [wfound EXCEPT ![t] = r.found]
  /\ wpc' = [wpc EXCEPT ![t] = "fixup"]
  /\ searches' = searches + 1
  /\ UNCHANGED <<points, tree, build_threads, tasks, phase, call, wi, processed, result>>

\* thread t, iteration i: the rest of the loop body and ++i
BatchNearestFixup(t) ==
  /\ phase = "batch"
  /\ call.op = "batch_nearest"
  /\ wpc[t] = "fixup"
  /\ LET i == wi[t]
         M == Len(call.pts.rows)
         f == NearestFixup(wfound[t], k_indices[i + 1], k_sq_dists[i + 1])
     IN /\ k_indices' = [k_indices EXCEPT ![i + 1] = f.k_index]
        /\ k_sq_dists' = [k_sq_dists EXCEPT ![i + 1] = f.k_sq_dist]
        /\ processed' = [processed EXCEPT ![i + 1] = Append(@, <<t, wfound[t]>>)]
        /\ wi' = [wi EXCEPT ![t] = i + 1]
        /\ wpc' = [wpc EXCEPT ![t] = IF i + 1 < ChunkHi(t - 1, M, call.num_threads)
                                     THEN "search" ELSE "done"]
  /\ UNCHANGED <<points, tree, build_threads, tasks, phase, call, wfound, searches, result>>

BatchKnnSearch(t) ==
  /\ phase = "batch"
  /\ call.op = "batch_knn"
  /\ wpc[t] = "search"
  /\ LET i == wi[t]
         r == LibKnnSearch(tree, points, BatchQuery(call.pts, i), call.k,
                           k_indices[i + 1], k_sq_dists[i + 1])
     IN /\ k_indices' = [k_indices EXCEPT ![i + 1] = r.k_indices]
        /\ k_sq_dists' = [k_sq_dists EXCEPT ![i + 1] = r.k_sq_dists]
        /\ wfound' = [wfound EXCEPT ![t] = r.found]
  /\ wpc' = [wpc EXCEPT ![t] = "fixup"]
  /\ searches' = searches + 1
  /\ UNCHANGED <<points, tree, build_threads, tasks, phase, call, wi, processed, result>>

BatchKnnFixup(t) ==
  /\ phase = "batch"
  /\ call.op = "batch_knn"
  /\ wpc[t] = "fixup"
  /\ LET i == wi[t]
         M == Len(call.pts.rows)
         f == KnnFixup(wfound[t], call.k, k_indices[i + 1], k_sq_dists[i + 1])
     IN /\ k_indices' = [k_indices EXCEPT ![i + 1] = f.k_indices]
        /\ k_sq_dists' = [k_sq_dists EXCEPT ![i + 1] = f.k_sq_dists]
        /\ processed' = [processed EXCEPT ![i + 1] = Append(@, <<t, wfound[t]>>)]
        /\ wi' = [wi EXCEPT ![t] = i + 1]
        /\ wpc' = [wpc EXCEPT ![t] = IF i + 1 < ChunkHi(t - 1, M, call.num_threads)
                                     THEN "search" ELSE "done"]
  /\ UNCHANGED <<points, tree, build_threads, tasks, phase, call, wfound, searches, result>>

\* the implicit barrier at the end of the parallel loop, then
\* return std::make_pair(k_indices, k_sq_dists)
BatchReturn ==
  /\ phase = "batch"
  /\ \A t \in 1 .. call.num_threads : wpc[t] = "done"
  /\ result' = [op |-> call.op, status |-> "ok", pts |-> call.pts, k |-> call.k,
                k_indices |-> k_indices, k_sq_dists |-> k_sq_dists]
  /\ phase' = "ready"
  /\ UNCHANGED <<points, tree, build_threads, tasks, call, k_indices, k_sq_dists, wpc, wi,
                 wfound, processed, searches>>

----------------------------------------------------------------------------
(* Batch calls, and the single calls they are compared with, against every  *)
(* tree over the bounded point sets; one call per behaviour                  *)

\* thread counts of a batch call: one thread and the most
BatchThreads == {1, MaxThreads}

InitBatch ==
  /\ points \in SeqsUpTo(BatchPoints, MaxBatchN)
  /\ tree = BuildTree(points)
  /\ build_threads = 0
  /\ phase = "ready"
  /\ Idle
  /\ result = NoCall

NextBatch ==
  \/ \E pts \in Arrays, T \in BatchThreads : batch_nearest_neighbor_search(pts, T)
  \/ \E pts \in Arrays, k \in 1 .. MaxK, T \in BatchThreads : batch_knn_search(pts, k, T)
  \/ \E t \in DOMAIN wpc : BatchNearestSearch(t)
  \/ \E t \in DOMAIN wpc : BatchNearestFixup(t)
  \/ \E t \in DOMAIN wpc : BatchKnnSearch(t)
  \/ \E t \in DOMAIN wpc : BatchKnnFixup(t)
  \/ BatchReturn
  \/ \E pt \in BatchQPoints : nearest_neighbor_search(pt)
  \/ \E pt \in BatchQPoints, k \in 1 .. MaxK : knn_search(pt, k)

SpecBatch == InitBatch /\ [][NextBatch]_vars

----------------------------------------------------------------------------
(* Properties of the batch calls *)

BatchOps == {"batch_nearest", "batch_knn"}
Returned(op) == result.op = op /\ result.status = "ok"
M == Len(result.pts.rows)
First3(row) == <<row[1], row[2], row[3]>>

\* C2: batch_nearest returns, for every row i, the index and the squared
\* distance that nearest returns for that row's point, found or not, whatever
\* the thread count and the interleaving of the workers.
C2_BatchNearestIsNearest ==
  Returned("batch_nearest") =>
    /\ Len(result.k_indices) = M
    /\ Len(result.k_sq_dists) = M
    /\ \A i \in 1 .. M :
         LET r == NearestReturn(First3(result.pts.rows[i]))
         IN /\ result.k_indices[i] = r.k_index
            /\ result.k_sq_dists[i] = r.k_sq_dist

\* two different rows answered by two different workers with different results
C2_Witness ==
  /\ Returned("batch_nearest")
  /\ call.num_threads = MaxThreads
  /\ M = MaxM
  /\ N = MaxBatchN
  /\ processed[1][1][1] # processed[M][1][1]
  /\ result.k_indices[1] # result.k_indices[M]
  /\ result.k_sq_dists[1] # result.k_sq_dists[M]
  /\ result.k_indices[M] < N

\* C3: a batch call whose array has neither 3 nor 4 columns fails with
\* invalid_argument before anything else: no output buffer, no worker, no
\* search, no returned pair; only 3- and 4-column arrays reach the loop.
C3_ShapeRejectedBeforeDispatch ==
  /\ phase = "batch" => call.pts.cols \in {3, 4}
  /\ (result.op \in BatchOps /\ result.pts.cols \notin {3, 4}) =>
       /\ result.status = "invalid_argument"
       /\ phase = "ready"
       /\ searches = 0
       /\ wpc = <<>>
       /\ k_indices = <<>>
       /\ k_sq_dists = <<>>
  /\ (result.op \in BatchOps /\ result.status = "invalid_argument") =>
       result.pts.cols \notin {3, 4}

C3_Witness ==
  /\ result.op = "batch_knn"
  /\ result.status = "invalid_argument"
  /\ result.pts.cols = 5
  /\ M = MaxM
  /\ N > 0

\* the (indices, distances) rows a knn or batch_knn call returned
KnnRows ==
  IF result.op = "knn" THEN {<<result.k_indices, result.k_sq_dists>>}
  ELSE {<<result.k_indices[i], result.k_sq_dists[i]>> : i \in 1 .. M}

KnnPadded(index, dist) ==
  (result.op = "knn" \/ Returned("batch_knn")) /\ N < result.k =>
    \A row \in KnnRows :
      /\ Len(row[1]) = result.k
      /\ Len(row[2]) = result.k
      /\ \A j \in 1 .. N : row[1][j] \in 0 .. (N - 1)
      /\ \A j \in (N + 1) .. result.k : row[1][j] = index /\ row[2][j] = dist

\* C5 as stated: with N < k points, knn and every row of batch_knn return k
\* slots, the first N real neighbours and every other slot the pair
\* (index -1, distance +infinity).
C5_PaddedWithInfinity == KnnPadded(ToSizeT(-1), Infinity)

\* C5 amended: with N < k points, knn and every row of batch_knn return k
\* slots, the first N real neighbours with indices in [0, N) and every other
\* slot the pair (size_t(-1), std::numeric_limits<double>::max()): the largest
\* finite double, not +infinity.
C5_PaddedWithDblMax == KnnPadded(ToSizeT(-1), DBL_MAX)

C5_Witness ==
  /\ Returned("batch_knn")
  /\ N = 1
  /\ result.k = MaxK
  /\ M = MaxM
  /\ call.num_threads = MaxThreads
  /\ \A i \in 1 .. M : /\ result.k_indices[i][1] = 0
                       /\ result.k_indices[i][MaxK] = SIZE_MAX

Active(t) == wpc[t] # "done"

C8_Slots ==
  phase = "batch" \/ (result.op \in BatchOps /\ result.status = "ok") =>
    LET rows == Len(call.pts.rows)
    IN /\ \A i \in 1 .. rows : Len(processed[i]) <= 1
       /\ \A t \in DOMAIN wpc : Active(t) =>
            /\ wi[t] \in 0 .. (rows - 1)
            /\ processed[wi[t] + 1] = <<>>
            /\ \A u \in DOMAIN wpc : (Active(u) /\ u # t) => wi[u] # wi[t]
       /\ phase = "ready" => \A i \in 1 .. rows : Len(processed[i]) = 1

C8_Writes ==
  phase = "batch" /\ phase' = "batch" =>
    \A i \in DOMAIN k_indices :
      (k_indices'[i] # k_indices[i] \/ k_sq_dists'[i] # k_sq_dists[i]) =>
        \E t \in DOMAIN wpc : Active(t) /\ wi[t] = i - 1 /\ wpc'[t] # wpc[t]

\* C8: in a batch call every row is processed exactly once, by one worker; a
\* step changes output slot i only if it is a step of the worker whose loop
\* variable is i; two workers in their loop bodies are never on the same row;
\* and the call has returned only when every row has been processed once.
C8_DisjointSlices == [][C8_Slots' /\ C8_Writes]_vars

\* both workers are inside their loop bodies, one past its search, on
\* different rows
C8_Witness ==
  /\ phase = "batch"
  /\ call.num_threads = MaxThreads
  /\ Len(call.pts.rows) = MaxM
  /\ N > 0
  /\ wpc[1] = "fixup"
  /\ wpc[MaxThreads] = "search"
  /\ k_indices[wi[1] + 1] # SIZE_MAX

\* C9: batch_nearest on a 3- or 4-column array never fails, and every slot of
\* its result is either a found neighbour (an index in [0, N) with its true
\* squared distance) or, when the search found none, exactly the sentinel pair
\* (size_t(-1), std::numeric_limits<double>::max()); the index is the sentinel
\* if and only if the distance is.
C9_FoundOrSentinel ==
  result.op = "batch_nearest" /\ result.pts.cols \in {3, 4} =>
    /\ result.status = "ok"
    /\ \A i \in 1 .. M :
         LET found == processed[i][1][2]
             ind == result.k_indices[i]
             dist == result.k_sq_dists[i]
         IN /\ found # 0 => /\ ind \in 0 .. (N - 1)
                            /\ dist = SqDist(points[ind + 1], result.pts.rows[i])
            /\ found = 0 => /\ ind = ToSizeT(-1)
                            /\ dist = DBL_MAX
            /\ (ind = ToSizeT(-1)) <=> (dist = DBL_MAX)

C9_Witness ==
  /\ Returned("batch_nearest")
  /\ N = 0
  /\ M = MaxM
  /\ \A i \in 1 .. M : processed[i][1][2] = 0 /\ result.k_indices[i] = SIZE_MAX

\* what one row of a batch call yields: the loop body run on that row alone
SlotOf(op, k, arr) ==
  IF op = "batch_nearest"
  THEN LET r == LibNearestNeighborSearch(tree, points, BatchQuery(arr, 0),
                                         ToSizeT(-1), DBL_MAX)
           f == NearestFixup(r.found, r.k_index, r.k_sq_dist)
       IN <<f.k_index, f.k_sq_dist>>
  ELSE LET r == LibKnnSearch(tree, points, BatchQuery(arr, 0), k,
                             [j \in 1 .. k |-> ToSizeT(-1)], [j \in 1 .. k |-> DBL_MAX])
           f == KnnFixup(r.found, k, r.k_indices, r.k_sq_dists)
       IN <<f.k_indices, f.k_sq_dists>>

OtherW == {0, 1, 2, 3}

\* C10: the output of a batch call on a 4-column array is, row by row, the
\* output for the same row with any other value in column 3 and the output for
\* the 3-column row made of columns 0..2.
C10_FourthColumnIgnored ==
  (result.op \in BatchOps /\ result.status = "ok" /\ result.pts.cols = 4) =>
    \A i \in 1 .. M :
      LET row == result.pts.rows[i]
          out == <<result.k_indices[i], result.k_sq_dists[i]>>
      IN /\ out = SlotOf(result.op, result.k, [rows |-> <<First3(row)>>, cols |-> 3])
         /\ \A w \in OtherW :
              out = SlotOf(result.op, result.k,
                           [rows |-> <<First3(row) \o <<w>> >>, cols |-> 4])

\* a 4-column call whose rows agree on columns 0..2 and differ in column 3, and
\* get the same found neighbour
C10_Witness ==
  /\ Returned("batch_knn")
  /\ result.pts.cols = 4
  /\ M = MaxM
  /\ N = MaxBatchN
  /\ First3(result.pts.rows[1]) = First3(result.pts.rows[M])
  /\ result.pts.rows[1][4] # result.pts.rows[M][4]
  /\ result.pts.rows[1][4] # 1
  /\ result.k_indices[1] = result.k_indices[M]
  /\ result.k_sq_dists[1][1] > 0
  /\ result.k_sq_dists[1][1] < DBL_MAX

====
